---- MODULE Spec2Model ----
(***************************************************************************)
(* FeedbackMonitor of syntechrev_polycodcal/feedback_monitor.py: a         *)
(* sliding-window aggregator over outcome events, and check(), which       *)
(* returns an Alert when the negative rate of the window meets the         *)
(* threshold.                                                              *)
(*                                                                         *)
(* Numbers.  Time is counted in whole seconds.  A rate or a threshold is   *)
(* a fraction <<n, d>> with d > 0, compared by cross-multiplication.  The  *)
(* code compares the float negative_count / total with the float           *)
(* threshold; for the small counts and the short decimal thresholds used   *)
(* here both are the correctly rounded values of their fractions, so the   *)
(* float comparison and the exact one agree.                               *)
(***************************************************************************)
EXTENDS Integers, Sequences, FiniteSets, TLC

VARIABLES
    mon,        \* the FeedbackMonitor object's configuration, or NoMonitor
    buffer,     \* mon._buffer: the deque of (ts, outcome, source)
    now,        \* the wall clock, datetime.now(timezone.utc).timestamp()
    last,       \* the most recent call: its name, what it raised, what it returned
    emitted,    \* the alert_type of every Alert check() has returned, in order
    called,     \* how many times alert_callback has been invoked
    ingested,   \* every entry ingest() has appended, in arrival order
    run,        \* the frame of the run_once call: its position, stream and alerts
    gw          \* the GenesisGateway object and the stores of its layers

vars == <<mon, buffer, now, last, emitted, called, ingested, run, gw>>

\* ------------------------------------------------------------------ bounds
MaxTime == 2        \* the wall clock ranges over 0..MaxTime
MaxBuf == 3         \* Spec: ingest is not called once it has appended MaxBuf entries
MaxSources == 6     \* SpecSources: the same, for MaxSources entries
MaxAlerts == 2      \* check is not called once it has returned MaxAlerts alerts
MaxInspirations == 3    \* SpecGateway: a gateway records at most MaxInspirations inspirations
MaxBatch == 2       \* SpecGateway: batch_process is handed at most MaxBatch dicts
MaxStream == 2      \* SpecRun: run_once is handed streams of at most MaxStream events

\* ------------------------------------------------------------ Python values
None == "None"
Absent == "<absent>"                    \* a key the event dict does not hold
NoMonitor == [constructed |-> FALSE]    \* before __init__, or after it raised

SPIKE == "negative_feedback_spike"
RECOVERY == "negative_feedback_recovery"

\* ------------------------------------------------------------- fractions
GE(a, b) == a[1] * b[2] >= b[1] * a[2]
LE(a, b) == GE(b, a)
EQ(a, b) == a[1] * b[2] = b[1] * a[2]

Zero == <<0, 1>>
One == <<1, 1>>

\* ------------------------------------------------------ program constants
DefaultWindow == 60     \* window_seconds: int = 60
TopSources == 5         \* sources.most_common(5)
DefaultThreshold == <<1, 5>>                \* threshold: float = 0.2
DefaultNegativeKey == {"negative", "error"}

\* --------------------------------------------------------- input universes
\* Keyword arguments of a constructor call: a function from the names the
\* caller passes to their values.
NoArgs == [k \in {} |-> k]
Optional(key, values) == {NoArgs} \cup {key :> v : v \in values}

ThresholdArgs == {<<-1, 2>>, <<1, 2>>, <<3, 2>>}
HysteresisArgs == {<<2, 5>>, <<1, 2>>, <<3, 5>>}
WindowArgs == {1, 2}
NegativeKeyArgs == {{}}
CallbackArgs == {"cb_returns", "cb_raises"}

CtorArgs ==
    {w @@ t @@ tr @@ cl @@ nk @@ cb :
        w \in Optional("window_seconds", WindowArgs),
        t \in Optional("threshold", ThresholdArgs),
        tr \in Optional("trigger_threshold", HysteresisArgs),
        cl \in Optional("clear_threshold", HysteresisArgs),
        nk \in Optional("negative_key", NegativeKeyArgs),
        cb \in Optional("alert_callback", CallbackArgs)}

\* the constructor calls the monitors of Spec are built with
MonitorArgs ==
    {"window_seconds" :> 1 @@ "threshold" :> <<1, 2>>,
     "window_seconds" :> 2 @@ "alert_callback" :> "cb_raises"}

Outcomes == {"negative", "ok"}
Sources == {None}
Times == 0..MaxTime

\* The timestamp an event carries: the key absent or None, the number 0, an
\* ISO string that parses (naive, or with a UTC offset of `offset` seconds),
\* a string that does not parse, a value of another type.
TimestampArgs ==
    {[kind |-> "none", v |-> 0, offset |-> 0],
     [kind |-> "bad_string", v |-> 0, offset |-> 0],
     [kind |-> "object", v |-> 0, offset |-> 0]}
    \cup {[kind |-> "number", v |-> 0, offset |-> 0]}
    \cup {[kind |-> "iso_naive", v |-> 1, offset |-> 0],
          [kind |-> "iso_aware", v |-> 1, offset |-> 1]}

\* an event dict: it may lack the outcome key or carry None under it, and
\* then its timestamp is absent, a string that does not parse, or a value of
\* another type
Events ==
    {event \in [outcome : Outcomes \cup {None, Absent},
                timestamp : TimestampArgs,
                source : Sources] :
        \/ event.outcome \in Outcomes
        \/ event.timestamp.kind \in {"none", "bad_string", "object"}}

\* event.get(key): None for a key the dict does not hold
get(event, key) == IF event[key] = Absent THEN None ELSE event[key]

\* ------------------------------------------------------------------ _to_ts
\* _to_ts(value) at wall-clock time t: what it raises, the float it returns
to_ts(value, t) ==
    CASE value.kind = "none" -> [raised |-> None, ts |-> t]
      [] value.kind = "number" -> [raised |-> None, ts |-> value.v]
      [] value.kind = "iso_naive" -> [raised |-> None, ts |-> value.v]
      [] value.kind = "iso_aware" -> [raised |-> None, ts |-> value.v - value.offset]
      [] value.kind = "bad_string" -> [raised |-> "ValueError", ts |-> 0]
      [] OTHER -> [raised |-> "TypeError", ts |-> 0]

\* ------------------------------------------------------------ _expire_old
\* mutant: an entry exactly window_seconds old is evicted as well
RECURSIVE expire_old_Inclusive(_, _, _)
expire_old_Inclusive(buf, now_ts, window_seconds) ==
    IF buf # <<>> /\ buf[1].ts <= now_ts - window_seconds
    THEN expire_old_Inclusive(Tail(buf), now_ts, window_seconds)
    ELSE buf

\* mutant: every stale entry is removed, wherever it stands in the window
expire_old_Filter(buf, now_ts, window_seconds) ==
    SelectSeq(buf, LAMBDA entry : ~(entry.ts < now_ts - window_seconds))

RECURSIVE expire_old(_, _, _)
expire_old(buf, now_ts, window_seconds) ==
    IF buf # <<>> /\ buf[1].ts < now_ts - window_seconds
    THEN expire_old(Tail(buf), now_ts, window_seconds)
    ELSE buf

\* -------------------------------------------------------------- summarize
Truthy(source) == source # None /\ source # ""

\* dict(counts): every outcome of the window with the number of its entries
counts_of(buf) ==
    [o \in {buf[i].outcome : i \in DOMAIN buf} |->
        Cardinality({i \in DOMAIN buf : buf[i].outcome = o})]

\* sum(counts.get(k, 0) for k in self.negative_key)
RECURSIVE sum_counts(_, _)
sum_counts(counts, keys) ==
    IF keys = {} THEN 0
    ELSE LET k == CHOOSE x \in keys : TRUE
         IN (IF k \in DOMAIN counts THEN counts[k] ELSE 0)
            + sum_counts(counts, keys \ {k})

\* sources.most_common(n): (source, count) pairs by count descending, equal
\* counts in the order the sources were first counted
\* mutant: equal counts come out in the reverse of the first-counted order
most_common_TiesReversed(buf, n) ==
    LET srcs == {buf[i].source : i \in {j \in DOMAIN buf : Truthy(buf[j].source)}}
        cnt(s) == Cardinality({i \in DOMAIN buf : buf[i].source = s})
        first(s) == CHOOSE i \in DOMAIN buf :
                        /\ buf[i].source = s
                        /\ \A j \in 1..(i - 1) : buf[j].source # s
        rank(s) == Cardinality({r \in srcs :
                        \/ cnt(r) > cnt(s)
                        \/ cnt(r) = cnt(s) /\ first(r) > first(s)})
        len == IF Cardinality(srcs) < n THEN Cardinality(srcs) ELSE n
    IN [k \in 1..len |->
            LET s == CHOOSE x \in srcs : rank(x) = k - 1 IN <<s, cnt(s)>>]

most_common(buf, n) ==
    LET srcs == {buf[i].source : i \in {j \in DOMAIN buf : Truthy(buf[j].source)}}
        cnt(s) == Cardinality({i \in DOMAIN buf : buf[i].source = s})
        first(s) == CHOOSE i \in DOMAIN buf :
                        /\ buf[i].source = s
                        /\ \A j \in 1..(i - 1) : buf[j].source # s
        rank(s) == Cardinality({r \in srcs :
                        \/ cnt(r) > cnt(s)
                        \/ cnt(r) = cnt(s) /\ first(r) < first(s)})
        len == IF Cardinality(srcs) < n THEN Cardinality(srcs) ELSE n
    IN [k \in 1..len |->
            LET s == CHOOSE x \in srcs : rank(x) = k - 1 IN <<s, cnt(s)>>]

\* mutant: the rate is taken against the non-negative entries
summarize_of_Ratio(buf, negative_key) ==
    LET total == Len(buf)
        counts == counts_of(buf)
        negative_count == sum_counts(counts, negative_key)
    IN [total |-> total,
        counts |-> counts,
        negative_count |-> negative_count,
        negative_rate |-> IF total - negative_count > 0
                          THEN <<negative_count, total - negative_count>>
                          ELSE Zero,
        top_sources |-> most_common(buf, TopSources)]

summarize_of(buf, negative_key) ==
    LET total == Len(buf)
        counts == counts_of(buf)
        negative_count == sum_counts(counts, negative_key)
    IN [total |-> total,
        counts |-> counts,
        negative_count |-> negative_count,
        negative_rate |-> IF total > 0 THEN <<negative_count, total>> ELSE Zero,
        top_sources |-> most_common(buf, TopSources)]

\* ---------------------------------------------------------------- __init__
AcceptedKeywords == {"window_seconds", "threshold", "negative_key", "alert_callback"}

Arg(kwargs, key, default) == IF key \in DOMAIN kwargs THEN kwargs[key] ELSE default

\* mutant: only an omitted negative_key is replaced by the default, an
\* empty set is kept
FeedbackMonitor_KeepsEmpty(kwargs) ==
    IF DOMAIN kwargs \subseteq AcceptedKeywords
    THEN [raised |-> None,
          self |-> [constructed |-> TRUE,
                    window_seconds |-> Arg(kwargs, "window_seconds", DefaultWindow),
                    threshold |-> Arg(kwargs, "threshold", DefaultThreshold),
                    negative_key |-> Arg(kwargs, "negative_key", DefaultNegativeKey),
                    alert_callback |-> Arg(kwargs, "alert_callback", None)]]
    ELSE [raised |-> "TypeError", self |-> NoMonitor]

\* FeedbackMonitor(**kwargs): what the call raises and the object it builds.
\* A keyword the signature does not name makes the call raise TypeError
\* before the body runs.
FeedbackMonitor(kwargs) ==
    IF DOMAIN kwargs \subseteq AcceptedKeywords
    THEN [raised |-> None,
          self |-> [constructed |-> TRUE,
                    window_seconds |-> Arg(kwargs, "window_seconds", DefaultWindow),
                    threshold |-> Arg(kwargs, "threshold", DefaultThreshold),
                    negative_key |->
                        IF Arg(kwargs, "negative_key", {}) = {}
                        THEN DefaultNegativeKey
                        ELSE kwargs["negative_key"],
                    alert_callback |-> Arg(kwargs, "alert_callback", None)]]
    ELSE [raised |-> "TypeError", self |-> NoMonitor]

\* ---------------------------------------------------------- genesis_gateway
\* Scores are counted in thousandths (0.613 is 613); an alignment score is
\* a fraction <<n, d>>.  A text is known by what the parser reads in it: its
\* length, the number of its sentences that hold an axiom word, the number
\* that hold a constraint keyword, and the number of mercy keywords found.
\* A content may also be the empty string, a value that is not a string, or
\* missing from the dict an inspiration is read from.
Min(a, b) == IF a <= b THEN a ELSE b

Text(len, axioms, constraints, mercy) ==
    [kind |-> "text", len |-> len, axioms |-> axioms,
     constraints |-> constraints, mercy |-> mercy]
EmptyText == [kind |-> "empty", len |-> 0, axioms |-> 0, constraints |-> 0, mercy |-> 0]
NotText == [kind |-> "number", len |-> 0, axioms |-> 0, constraints |-> 0, mercy |-> 0]
NoContent == [kind |-> "absent", len |-> 0, axioms |-> 0, constraints |-> 0, mercy |-> 0]

\* len(self._extract_axioms(content)): the sentences found, or the one
\* placeholder "No explicit axioms identified"
extract_axioms(content) == IF content.axioms > 0 THEN content.axioms ELSE 1

\* len(self._identify_constraints(content))
identify_constraints(content) == content.constraints

\* min(0.5 + min(len(axioms) * 0.1, 0.3) + min(len(content) / 1000, 0.2), 1.0)
calculate_truth(content, axioms) ==
    Min(500 + Min(axioms * 100, 300) + Min(content.len, 200), 1000)

\* source_scores.get(inspiration.source.lower(), 0.5), plus 0.1 for a signature
calculate_faith(source, signature) ==
    LET base == CASE source = "dream" -> 900
                  [] source = "insight" -> 850
                  [] source = "revelation" -> 950
                  [] source = "hypothesis" -> 600
                  [] source = "observation" -> 700
                  [] OTHER -> 500
    IN Min(base + (IF signature # None /\ signature # "" THEN 100 ELSE 0), 1000)

\* min(0.6 + min(len(constraints) * 0.1, 0.4), 1.0)
calculate_justice(constraints) == Min(600 + Min(constraints * 100, 400), 1000)

\* min(0.7 + min(mercy_count * 0.1, 0.3), 1.0)
calculate_mercy(content) == Min(700 + Min(content.mercy * 100, 300), 1000)

NoConstruct == [source |-> None, truth |-> 0, faith |-> 0, justice |-> 0, mercy |-> 0]

\* TheoSyntacticParser.parse(inspiration): what it raises and the construct
\* it builds.  content.split raises on a content that is not a string, and
\* source.lower() on a source of None, both before the construct is built.
parse(inspiration) ==
    CASE inspiration.content.kind = "empty" ->
            [raised |-> "ValueError", construct |-> NoConstruct]
      [] inspiration.content.kind # "text" ->
            [raised |-> "AttributeError", construct |-> NoConstruct]
      [] inspiration.source = None ->
            [raised |-> "AttributeError", construct |-> NoConstruct]
      [] OTHER ->
            [raised |-> None,
             construct |->
                [source |-> inspiration.source,
                 truth |-> calculate_truth(inspiration.content,
                                           extract_axioms(inspiration.content)),
                 faith |-> calculate_faith(inspiration.source, inspiration.signature),
                 justice |-> calculate_justice(
                                identify_constraints(inspiration.content)),
                 mercy |-> calculate_mercy(inspiration.content)]]

\* AlignmentScore.__post_init__: every component lies in [0.0, 1.0]
ValidScore(construct) ==
    /\ construct.truth \in 0..1000
    /\ construct.faith \in 0..1000
    /\ construct.justice \in 0..1000
    /\ construct.mercy \in 0..1000

\* AlignmentScore.compute(): alpha * truth + beta * faith + gamma * justice
\* + delta * mercy with the weights (0.25, 0.25, 0.25, 0.25)
compute(construct) ==
    <<250 * construct.truth + 250 * construct.faith
        + 250 * construct.justice + 250 * construct.mercy, 1000000>>

\* MoralGravityField.filter(construct): evaluate, then
\* score.is_aligned(self.threshold), i.e. compute() >= threshold
filter(threshold, construct) ==
    IF ValidScore(construct)
    THEN [raised |-> None, ret |-> GE(compute(construct), threshold)]
    ELSE [raised |-> "ValueError", ret |-> FALSE]

\* GenesisCompiler._calculate_alignment(construct): the same sum, computed
\* again from the construct
calculate_alignment(construct) ==
    <<250 * construct.truth + 250 * construct.faith
        + 250 * construct.justice + 250 * construct.mercy, 1000000>>

NoArtifact == [name |-> None, alignment_score |-> <<0, 1>>]
NoEntry == [artifact_name |-> None, alignment_score |-> <<0, 1>>, source |-> None]

\* GenesisCompiler.compile(construct): raises below the compiler's
\* threshold, else builds the artifact (appended to compiler.artifacts)
compile(alignment_threshold, construct) ==
    LET alignment == calculate_alignment(construct)
    IN IF ~GE(alignment, alignment_threshold)
       THEN [raised |-> "ValueError", artifact |-> NoArtifact]
       ELSE [raised |-> None,
             artifact |-> [name |-> construct.source, alignment_score |-> alignment]]

\* CodicalSealRegistry.register(...): raises on a score outside [0.0, 1.0],
\* else builds the entry (appended to registry.entries)
register(artifact_name, alignment_score, source) ==
    IF GE(alignment_score, <<0, 1>>) /\ GE(<<1, 1>>, alignment_score)
    THEN [raised |-> None,
          entry |-> [artifact_name |-> artifact_name,
                     alignment_score |-> alignment_score,
                     source |-> source]]
    ELSE [raised |-> "ValueError", entry |-> NoEntry]

\* no GenesisGateway has been constructed
NoGateway == [constructed |-> FALSE,
              alignment_threshold |-> <<0, 1>>,   \* gateway.alignment_threshold
              filter_threshold |-> <<0, 1>>,      \* gateway.moral_gravity.threshold
              compiler_threshold |-> <<0, 1>>,    \* gateway.compiler.alignment_threshold
              inspirations |-> <<>>,              \* inspiration_interface.inspirations
              parsed_constructs |-> <<>>,         \* parser.parsed_constructs
              artifacts |-> <<>>,                 \* compiler.artifacts
              entries |-> <<>>]                   \* registry.entries

\* GenesisGateway(**kwargs): the layers are built with the threshold, and
\* MoralGravityField (then GenesisCompiler) raises on one outside [0.0, 1.0]
GenesisGateway(kwargs) ==
    LET alignment_threshold == Arg(kwargs, "alignment_threshold", <<8, 10>>)
    IN IF GE(alignment_threshold, <<0, 1>>) /\ GE(<<1, 1>>, alignment_threshold)
       THEN [raised |-> None,
             self |-> [constructed |-> TRUE,
                       alignment_threshold |-> alignment_threshold,
                       filter_threshold |-> alignment_threshold,
                       compiler_threshold |-> alignment_threshold,
                       inspirations |-> <<>>,
                       parsed_constructs |-> <<>>,
                       artifacts |-> <<>>,
                       entries |-> <<>>]]
       ELSE [raised |-> "ValueError", self |-> NoGateway]

\* the result dict of process(): aligned, artifact, registry_entry
Result(aligned, artifact, registry_entry) ==
    [aligned |-> aligned, artifact |-> artifact, registry_entry |-> registry_entry]
NoResult == Result(FALSE, NoArtifact, NoEntry)

\* mutant: an aligned construct is compiled but never registered
process_of_NoRegister(self, args) ==
    IF args.content.kind = "empty"
    THEN [gw |-> self, raised |-> "ValueError", ret |-> NoResult]
    ELSE
    LET inspiration == [content |-> args.content, source |-> args.source,
                        signature |-> args.signature]
        received == [self EXCEPT !.inspirations = Append(@, inspiration)]
        p == parse(inspiration)
        parsed == [received EXCEPT !.parsed_constructs = Append(@, p.construct)]
        f == filter(self.filter_threshold, p.construct)
        c == compile(self.compiler_threshold, p.construct)
        compiled == [parsed EXCEPT !.artifacts = Append(@, c.artifact)]
    IN CASE p.raised # None -> [gw |-> received, raised |-> p.raised, ret |-> NoResult]
         [] f.raised # None -> [gw |-> parsed, raised |-> f.raised, ret |-> NoResult]
         [] ~f.ret -> [gw |-> parsed, raised |-> None, ret |-> NoResult]
         [] c.raised # None -> [gw |-> parsed, raised |-> c.raised, ret |-> NoResult]
         [] OTHER -> [gw |-> compiled, raised |-> None,
                      ret |-> Result(TRUE, c.artifact, NoEntry)]

\* self.process(content, source, intent, signature, metadata) on the gateway
\* `self`: the gateway it leaves, what it raises, the result it returns.
\* receive() raises on an empty content before it records anything; every
\* later step works on what the earlier ones have already appended.
process_of(self, args) ==
    IF args.content.kind = "empty"
    THEN [gw |-> self, raised |-> "ValueError", ret |-> NoResult]
    ELSE
    LET inspiration == [content |-> args.content, source |-> args.source,
                        signature |-> args.signature]
        received == [self EXCEPT !.inspirations = Append(@, inspiration)]
        p == parse(inspiration)
        parsed == [received EXCEPT !.parsed_constructs = Append(@, p.construct)]
        f == filter(self.filter_threshold, p.construct)
        c == compile(self.compiler_threshold, p.construct)
        compiled == [parsed EXCEPT !.artifacts = Append(@, c.artifact)]
        r == register(c.artifact.name, c.artifact.alignment_score, args.source)
        registered == [compiled EXCEPT !.entries = Append(@, r.entry)]
    IN CASE p.raised # None -> [gw |-> received, raised |-> p.raised, ret |-> NoResult]
         [] f.raised # None -> [gw |-> parsed, raised |-> f.raised, ret |-> NoResult]
         [] ~f.ret -> [gw |-> parsed, raised |-> None, ret |-> NoResult]
         [] c.raised # None -> [gw |-> parsed, raised |-> c.raised, ret |-> NoResult]
         [] r.raised # None -> [gw |-> compiled, raised |-> r.raised, ret |-> NoResult]
         [] OTHER -> [gw |-> registered, raised |-> None,
                      ret |-> Result(TRUE, c.artifact, r.entry)]

\* batch_process(inspirations): process() for every dict in order; insp["content"]
\* raises KeyError on a dict without the key; any Exception becomes an
\* error result and the loop goes on.  Returns the gateway left and the
\* results.
RECURSIVE batch_process_of(_, _)
batch_process_of(self, inspirations) ==
    IF inspirations = <<>>
    THEN [gw |-> self, ret |-> <<>>]
    ELSE LET insp == Head(inspirations)
             r == IF insp.content.kind = "absent"
                  THEN [gw |-> self, raised |-> "KeyError", ret |-> NoResult]
                  ELSE process_of(self, insp)
             rest == batch_process_of(r.gw, Tail(inspirations))
         IN [gw |-> rest.gw,
             ret |-> <<[error |-> r.raised, result |-> r.ret]>> \o rest.ret]

\* reflect(): the numbers of the audit
reflect_of(self) ==
    LET total_processed == Len(self.inspirations)
        total_compiled == Len(self.artifacts)
    IN [total_inspirations |-> total_processed,
        total_compiled |-> total_compiled,
        alignment_pass_rate |-> IF total_processed = 0
                                THEN <<0, 1>>
                                ELSE <<total_compiled, total_processed>>]

\* ------------------------------------------------------------------ state
\* no run_once call has been made
NoRun == [pc |-> "idle", stream |-> <<>>, i |-> 0, alerts |-> <<>>,
          raised |-> None, ret |-> <<>>, at_call |-> <<>>, windows |-> <<>>]

NoCall == [op |-> "none"]
NoAlert == [alert_type |-> None]    \* check() returning None

\* the constructor call as a step: from no monitor to a monitor, or to the
\* exception
init(kwargs) ==
    /\ last = NoCall
    /\ mon' = FeedbackMonitor(kwargs).self
    /\ last' = [op |-> "__init__", args |-> kwargs,
                raised |-> FeedbackMonitor(kwargs).raised]
    /\ buffer' = <<>>
    /\ UNCHANGED <<now, emitted, called, ingested>>

\* before the constructor call
InitNew ==
    /\ mon = NoMonitor
    /\ buffer = <<>>
    /\ now = 0
    /\ last = NoCall
    /\ emitted = <<>>
    /\ called = 0
    /\ ingested = <<>>
    /\ run = NoRun
    /\ gw = NoGateway

\* a monitor as one of the MonitorArgs calls leaves it
Init ==
    /\ \E kwargs \in MonitorArgs :
        /\ mon = FeedbackMonitor(kwargs).self
        /\ last = [op |-> "__init__", args |-> kwargs, raised |-> None]
    /\ buffer = <<>>
    /\ now = 0
    /\ emitted = <<>>
    /\ called = 0
    /\ ingested = <<>>
    /\ run = NoRun
    /\ gw = NoGateway

\* ------------------------------------------------------------------ ingest
\* mutant: only a missing key is rejected, not an outcome of None
MissingOutcome_KeyOnly(event) == event.outcome = Absent

\* outcome = event.get("outcome"); if outcome is None
MissingOutcome(event) == get(event, "outcome") = None

\* mutant: the entry is appended before the outcome is validated
ingest_AppendFirst(event) ==
    /\ mon.constructed
    /\ UNCHANGED <<mon, now, emitted, called>>
    /\ LET r == to_ts(event.timestamp, now)
       IN IF r.raised # None
          THEN /\ last' = [op |-> "ingest", raised |-> r.raised, raised_by |-> "_to_ts"]
               /\ UNCHANGED <<buffer, ingested>>
          ELSE /\ buffer' = expire_old(
                               Append(buffer, [ts |-> r.ts,
                                               outcome |-> get(event, "outcome"),
                                               source |-> get(event, "source")]),
                               r.ts, mon.window_seconds)
               /\ ingested' = Append(ingested, [ts |-> r.ts,
                                                outcome |-> get(event, "outcome"),
                                                source |-> get(event, "source")])
               /\ last' = IF MissingOutcome(event)
                          THEN [op |-> "ingest", raised |-> "ValueError",
                                raised_by |-> "ingest"]
                          ELSE [op |-> "ingest", raised |-> None]

\* mutant: an ingest that returns evaluates the alert condition and records
\* the alert
ingest_Alerts(event) ==
    /\ mon.constructed
    /\ UNCHANGED <<mon, now, called>>
    /\ IF MissingOutcome(event)
       THEN /\ last' = [op |-> "ingest", raised |-> "ValueError", raised_by |-> "ingest"]
            /\ UNCHANGED <<buffer, ingested, emitted>>
       ELSE LET r == to_ts(event.timestamp, now)
            IN IF r.raised # None
               THEN /\ last' = [op |-> "ingest", raised |-> r.raised,
                                raised_by |-> "_to_ts"]
                    /\ UNCHANGED <<buffer, ingested, emitted>>
               ELSE /\ last' = [op |-> "ingest", raised |-> None]
                    /\ buffer' = expire_old(
                                    Append(buffer, [ts |-> r.ts,
                                                    outcome |-> get(event, "outcome"),
                                                    source |-> get(event, "source")]),
                                    r.ts, mon.window_seconds)
                    /\ ingested' = Append(ingested, [ts |-> r.ts,
                                                     outcome |-> get(event, "outcome"),
                                                     source |-> get(event, "source")])
                    /\ emitted' = IF sum_counts(counts_of(buffer'), mon.negative_key) > 0
                                  THEN Append(emitted, SPIKE)
                                  ELSE emitted

\* raised_by: the function whose raise statement or library call raised
ingest(event) ==
    /\ mon.constructed
    /\ UNCHANGED <<mon, now, emitted, called>>
    /\ IF MissingOutcome(event)
       THEN /\ last' = [op |-> "ingest", raised |-> "ValueError", raised_by |-> "ingest"]
            /\ UNCHANGED <<buffer, ingested>>
       ELSE LET r == to_ts(event.timestamp, now)
            IN IF r.raised # None
               THEN /\ last' = [op |-> "ingest", raised |-> r.raised,
                                raised_by |-> "_to_ts"]
                    /\ UNCHANGED <<buffer, ingested>>
               ELSE /\ last' = [op |-> "ingest", raised |-> None]
                    /\ buffer' = expire_old(
                                    Append(buffer, [ts |-> r.ts,
                                                    outcome |-> get(event, "outcome"),
                                                    source |-> get(event, "source")]),
                                    r.ts, mon.window_seconds)
                    /\ ingested' = Append(ingested, [ts |-> r.ts,
                                                     outcome |-> get(event, "outcome"),
                                                     source |-> get(event, "source")])

\* --------------------------------------------------------------- summarize
\* mutant: summarize evicts relative to the wall clock before it counts
summarize_Evicts ==
    /\ mon.constructed
    /\ buffer' = expire_old(buffer, now, mon.window_seconds)
    /\ last' = [op |-> "summarize", raised |-> None,
                ret |-> summarize_of(buffer', mon.negative_key)]
    /\ UNCHANGED <<mon, now, emitted, called, ingested>>

summarize ==
    /\ mon.constructed
    /\ UNCHANGED <<mon, buffer, now, emitted, called, ingested>>
    /\ last' = [op |-> "summarize", raised |-> None,
                ret |-> summarize_of(buffer, mon.negative_key)]

\* ------------------------------------------------------------------- check
\* mutants of the condition: a strict comparison, `or` for `and`, the
\* operands of the comparison swapped
AlertCondition_Strict(s, threshold) == ~GE(threshold, s.negative_rate) /\ s.total > 0
AlertCondition_Or(s, threshold) == GE(s.negative_rate, threshold) \/ s.total > 0
AlertCondition_Swapped(s, threshold) == GE(threshold, s.negative_rate) /\ s.total > 0

\* if s["negative_rate"] >= self.threshold and s["total"] > 0
AlertCondition(s, threshold) == GE(s.negative_rate, threshold) /\ s.total > 0

\* mutant: the callback is invoked outside any try statement
escaped_Unguarded(alert_callback) ==
    IF alert_callback = "cb_raises" THEN "RuntimeError" ELSE None

\* try: self.alert_callback(alert) / except Exception: pass -- the exception
\* that leaves the try statement
escaped(alert_callback) == None

\* mutant: the callback is handed the details payload, not the alert
callback_args_Details(alert_callback, alert) ==
    IF alert_callback # None THEN <<alert.details>> ELSE <<>>

\* if self.alert_callback: self.alert_callback(alert) -- the arguments of
\* the invocations made, in order
callback_args(alert_callback, alert) ==
    IF alert_callback # None THEN <<alert>> ELSE <<>>

\* mutant: the alert reports the default threshold, not the monitor's
Alert_DefaultThreshold(self, s, now_ts) ==
    [alert_type |-> SPIKE,
     timestamp |-> now_ts,
     window_seconds |-> self.window_seconds,
     metric_value |-> s.negative_rate,
     threshold |-> DefaultThreshold,
     details |-> [total |-> s.total,
                  negative_count |-> s.negative_count,
                  counts |-> s.counts,
                  top_sources |-> s.top_sources]]

\* alert = Alert(alert_type="negative_feedback_spike", ...)
Alert(self, s, now_ts) ==
    [alert_type |-> SPIKE,
     timestamp |-> now_ts,
     window_seconds |-> self.window_seconds,
     metric_value |-> s.negative_rate,
     threshold |-> self.threshold,
     details |-> [total |-> s.total,
                  negative_count |-> s.negative_count,
                  counts |-> s.counts,
                  top_sources |-> s.top_sources]]

\* self.check() on the object `self` with window `buf` at wall-clock time
\* now_ts: the window it leaves, what it raises, what it returns, and the
\* callback invocations it makes
check_of(self, buf, now_ts) ==
    LET kept == expire_old(buf, now_ts, self.window_seconds)
        s == summarize_of(kept, self.negative_key)
    IN IF AlertCondition(s, self.threshold)
       THEN LET alert == Alert(self, s, now_ts)
                calls == callback_args(self.alert_callback, alert)
                exc == IF calls # <<>> THEN escaped(self.alert_callback) ELSE None
            IN [buffer |-> kept,
                raised |-> exc,
                ret |-> IF exc = None THEN alert ELSE NoAlert,
                called_with |-> calls]
       ELSE [buffer |-> kept, raised |-> None, ret |-> NoAlert, called_with |-> <<>>]

check ==
    /\ mon.constructed
    /\ Len(emitted) < MaxAlerts
    /\ UNCHANGED <<mon, now, ingested>>
    /\ LET r == check_of(mon, buffer, now)
       IN /\ buffer' = r.buffer
          /\ last' = [op |-> "check", raised |-> r.raised, ret |-> r.ret,
                      called_with |-> r.called_with]
          /\ emitted' = IF r.ret # NoAlert
                        THEN Append(emitted, r.ret.alert_type)
                        ELSE emitted
          /\ called' = called + Len(r.called_with)

\* ------------------------------------------------------------ environment
\* the wall clock advances between calls
Tick ==
    /\ now + 1 \in Times
    /\ now' = now + 1
    /\ UNCHANGED <<mon, buffer, last, emitted, called, ingested>>

Next ==
    \/ \E event \in Events : Len(ingested) < MaxBuf /\ ingest(event) /\ UNCHANGED <<run, gw>>
    \/ summarize /\ UNCHANGED <<run, gw>>
    \/ check /\ UNCHANGED <<run, gw>>
    \/ Tick /\ UNCHANGED <<run, gw>>

Spec == Init /\ [][Next]_vars

\* ingest() calls only, while the clock advances
NextIngest ==
    \/ \E event \in Events : Len(ingested) < MaxBuf /\ ingest(event) /\ UNCHANGED <<run, gw>>
    \/ Tick /\ UNCHANGED <<run, gw>>

SpecIngest == Init /\ [][NextIngest]_vars

\* the constructor alone, over every combination of keyword arguments
\* Monitors built with and without a set of negative outcomes, fed events
\* of three outcomes at the current time: the constructor call is a step.
\* The call that passes the empty set is the only one that passes a
\* threshold of 1/2.
NegativeArgs ==
    {NoArgs,
     "negative_key" :> {} @@ "threshold" :> <<1, 2>>,
     "negative_key" :> {"ok"}}

NegativeEvents ==
    [outcome : {"negative", "error", "ok"},
     timestamp : {[kind |-> "none", v |-> 0, offset |-> 0]},
     source : Sources]

NextNegative ==
    \/ \E kwargs \in NegativeArgs : init(kwargs) /\ UNCHANGED <<run, gw>>
    \/ \E event \in NegativeEvents :
            Len(ingested) < MaxBuf /\ ingest(event) /\ UNCHANGED <<run, gw>>
    \/ summarize /\ UNCHANGED <<run, gw>>
    \/ check /\ UNCHANGED <<run, gw>>

SpecNegative == InitNew /\ [][NextNegative]_vars

NextInit == \E kwargs \in CtorArgs : init(kwargs) /\ UNCHANGED <<run, gw>>

SpecInit == InitNew /\ [][NextInit]_vars

\* Windows of many sources: a default monitor at a fixed time, fed events
\* that differ in their source only.  Source labels are opaque to the code,
\* so an event carries no source, the empty string, a label already in the
\* window, or the first label of SourceNames not yet in it.
SourceNames == <<"s1", "s2", "s3", "s4", "s5", "s6", "s7">>

SourceEvents ==
    LET used == {buffer[i].source : i \in DOMAIN buffer}
        fresh == {k \in DOMAIN SourceNames : SourceNames[k] \notin used}
        next == IF fresh = {} THEN {}
                ELSE {SourceNames[CHOOSE k \in fresh : \A j \in fresh : k <= j]}
    IN [outcome : {"ok"},
        timestamp : {[kind |-> "none", v |-> 0, offset |-> 0]},
        source : {None, ""} \cup (used \cap {SourceNames[k] : k \in DOMAIN SourceNames})
                 \cup next]

InitSources ==
    /\ mon = FeedbackMonitor(NoArgs).self
    /\ last = [op |-> "__init__", args |-> NoArgs, raised |-> None]
    /\ buffer = <<>>
    /\ now = 0
    /\ emitted = <<>>
    /\ called = 0
    /\ ingested = <<>>
    /\ run = NoRun
    /\ gw = NoGateway

NextSources ==
    \/ \E event \in SourceEvents :
        Len(ingested) < MaxSources /\ ingest(event) /\ UNCHANGED <<run, gw>>
    \/ summarize /\ UNCHANGED <<run, gw>>

SpecSources == InitSources /\ [][NextSources]_vars

\* ---------------------------------------------------------------- run_once
\* The events of the streams run_once is handed: live events (no timestamp),
\* a historical event (timestamp 0), and an event without outcome.
RunEvents ==
    {event \in Events :
        \/ event.timestamp.kind = "none" /\ event.outcome \in Outcomes \cup {None}
        \/ event.timestamp.kind = "number" /\ event.outcome = "negative"}

Streams == UNION {[1..n -> RunEvents] : n \in 0..MaxStream}

\* def run_once(stream, monitor=None): mon = monitor or FeedbackMonitor();
\* alerts = [] -- `monitor` is None (in the first call only) or the monitor
\* that exists.  at_call and windows observe the call: the monitor it starts
\* from, and the window after each ingest.
run_once(stream, monitor) ==
    /\ run.pc \in {"idle", "done", "raised"}
    /\ IF monitor = None
       THEN /\ run.pc = "idle"
            /\ mon' = FeedbackMonitor(NoArgs).self
            /\ buffer' = <<>>
            /\ emitted' = <<>>
            /\ called' = 0
            /\ ingested' = <<>>
       ELSE /\ mon.constructed
            /\ Len(ingested) + Len(stream) <= MaxBuf
            /\ UNCHANGED <<mon, buffer, emitted, called, ingested>>
    /\ run' = [pc |-> IF stream = <<>> THEN "done" ELSE "ingest",
               stream |-> stream,
               i |-> 1,
               alerts |-> <<>>,
               raised |-> None,
               ret |-> <<>>,
               at_call |-> <<[buffer |-> buffer', emitted |-> emitted',
                              ingested |-> ingested']>>,
               windows |-> <<>>]
    /\ UNCHANGED <<now, last>>

\* mutant: an event whose ingest raises is skipped and the loop goes on
run_ingest_Skips ==
    /\ run.pc = "ingest"
    /\ ingest(run.stream[run.i])
    /\ run' = IF last'.raised = None
              THEN [run EXCEPT !.pc = "check", !.windows = Append(@, buffer')]
              ELSE IF run.i < Len(run.stream)
              THEN [run EXCEPT !.i = run.i + 1]
              ELSE [run EXCEPT !.pc = "done", !.i = run.i + 1, !.ret = run.alerts]

\* for event in stream: mon.ingest(event) -- an exception leaves run_once
run_ingest ==
    /\ run.pc = "ingest"
    /\ ingest(run.stream[run.i])
    /\ run' = IF last'.raised # None
              THEN [run EXCEPT !.pc = "raised", !.raised = last'.raised]
              ELSE [run EXCEPT !.pc = "check", !.windows = Append(@, buffer')]

\* mutant: every check() result is appended, None included
run_check_AppendsNone ==
    /\ run.pc = "check"
    /\ check
    /\ LET alerts == Append(run.alerts, last'.ret)
       IN run' = IF last'.raised # None
                 THEN [run EXCEPT !.pc = "raised", !.raised = last'.raised]
                 ELSE IF run.i < Len(run.stream)
                 THEN [run EXCEPT !.pc = "ingest", !.i = run.i + 1, !.alerts = alerts]
                 ELSE [run EXCEPT !.pc = "done", !.i = run.i + 1, !.alerts = alerts,
                                  !.ret = alerts]

\* a = mon.check(); if a: alerts.append(a) -- and, after the last event,
\* return alerts
run_check ==
    /\ run.pc = "check"
    /\ check
    /\ LET alerts == IF last'.ret # NoAlert
                     THEN Append(run.alerts, last'.ret)
                     ELSE run.alerts
       IN run' = IF last'.raised # None
                 THEN [run EXCEPT !.pc = "raised", !.raised = last'.raised]
                 ELSE IF run.i < Len(run.stream)
                 THEN [run EXCEPT !.pc = "ingest", !.i = run.i + 1, !.alerts = alerts]
                 ELSE [run EXCEPT !.pc = "done", !.i = run.i + 1, !.alerts = alerts,
                                  !.ret = alerts]

\* run_once(stream, self) on a monitor whose window is `buf`, executed while
\* the wall clock reads t throughout, for a stream whose ingests all return:
\* the alerts it collects and the window after each ingest
RECURSIVE replay(_, _, _, _)
replay(self, buf, stream, t) ==
    IF stream = <<>>
    THEN [alerts |-> <<>>, windows |-> <<>>]
    ELSE LET event == Head(stream)
             ts == to_ts(event.timestamp, t).ts
             window == expire_old(
                           Append(buf, [ts |-> ts,
                                        outcome |-> get(event, "outcome"),
                                        source |-> get(event, "source")]),
                           ts, self.window_seconds)
             r == check_of(self, window, t)
             rest == replay(self, r.buffer, Tail(stream), t)
         IN [alerts |-> (IF r.ret # NoAlert THEN <<r.ret>> ELSE <<>>) \o rest.alerts,
             windows |-> <<window>> \o rest.windows]

NextRun ==
    \/ \E stream \in Streams, monitor \in {None, "monitor"} :
            run_once(stream, monitor) /\ UNCHANGED gw
    \/ run_ingest /\ UNCHANGED gw
    \/ run_check /\ UNCHANGED gw
    \/ Tick /\ UNCHANGED <<run, gw>>

SpecRun == Init /\ [][NextRun]_vars

\* ---------------------------------------------------------- GenesisGateway
\* the constructor calls: the default threshold 0.8, 0.6, and 1.5
GatewayArgs ==
    {NoArgs,
     "alignment_threshold" :> <<6, 10>>,
     "alignment_threshold" :> <<3, 2>>}

Plain == Text(13, 0, 0, 0)      \* "Test content."
Rich == Text(300, 3, 4, 3)      \* axioms, constraints and mercy words throughout

\* process(content, source, signature=...) as its signature types it: the
\* empty string, a plain text that scores 0.60325, a rich one that scores 1
ProcessArgs ==
    {[content |-> EmptyText, source |-> "test", signature |-> None],
     [content |-> Plain, source |-> "test", signature |-> None],
     [content |-> Rich, source |-> "revelation", signature |-> "4:40"]}

\* the dicts of a batch, as json.load leaves them: also one without a
\* content, one whose source is null, one whose content is a number
BatchItems ==
    ProcessArgs
    \cup {[content |-> NoContent, source |-> "test", signature |-> None],
          [content |-> Plain, source |-> None, signature |-> None],
          [content |-> NotText, source |-> "test", signature |-> None]}

Batches == UNION {[1..n -> BatchItems] : n \in 0..MaxBatch}

\* the constructor call as a step
gateway_init(kwargs) ==
    /\ last = NoCall
    /\ ~gw.constructed
    /\ UNCHANGED <<mon, buffer, now, emitted, called, ingested, run>>
    /\ gw' = GenesisGateway(kwargs).self
    /\ last' = [op |-> "GenesisGateway", args |-> kwargs,
                raised |-> GenesisGateway(kwargs).raised]

process(args) ==
    /\ gw.constructed
    /\ Len(gw.inspirations) < MaxInspirations
    /\ UNCHANGED <<mon, buffer, now, emitted, called, ingested, run>>
    /\ LET r == process_of(gw, args)
       IN /\ gw' = r.gw
          /\ last' = [op |-> "process", raised |-> r.raised, ret |-> r.ret]

batch_process(inspirations) ==
    /\ gw.constructed
    /\ Len(gw.inspirations) + Len(inspirations) <= MaxInspirations
    /\ UNCHANGED <<mon, buffer, now, emitted, called, ingested, run>>
    /\ LET r == batch_process_of(gw, inspirations)
       IN /\ gw' = r.gw
          /\ last' = [op |-> "batch_process", raised |-> None, ret |-> r.ret]

reflect ==
    /\ gw.constructed
    /\ UNCHANGED <<mon, buffer, now, emitted, called, ingested, run, gw>>
    /\ last' = [op |-> "reflect", raised |-> None, ret |-> reflect_of(gw)]

\* clear_all(): clear() on the four layers
clear_all ==
    /\ gw.constructed
    /\ UNCHANGED <<mon, buffer, now, emitted, called, ingested, run>>
    /\ gw' = [gw EXCEPT !.inspirations = <<>>, !.parsed_constructs = <<>>,
                        !.artifacts = <<>>, !.entries = <<>>]
    /\ last' = [op |-> "clear_all", raised |-> None]

NextGateway ==
    \/ \E kwargs \in GatewayArgs : gateway_init(kwargs)
    \/ \E args \in ProcessArgs : process(args)
    \/ \E inspirations \in Batches : batch_process(inspirations)
    \/ reflect
    \/ clear_all

SpecGateway == InitNew /\ [][NextGateway]_vars

\* ================================================================= claims
\* The hysteresis vocabulary of the specification, read on this monitor.
\* The object keeps one threshold and no alarm flag.  Both hysteresis
\* thresholds of a monitor built with `threshold` alone are that threshold,
\* and the alarm is active from a Spike until the next Recovery.
trigger_threshold == mon.threshold
clear_threshold == mon.threshold
alert_active == emitted # <<>> /\ emitted[Len(emitted)] = SPIKE

\* The negative rate of a window, counted entry by entry.
NegativeIn(buf) == Cardinality({i \in DOMAIN buf : buf[i].outcome \in mon.negative_key})
RateOf(buf) == <<NegativeIn(buf), Len(buf)>>
RateAtLeast(buf, t) == Len(buf) > 0 /\ GE(RateOf(buf), t)
RateAtMost(buf, t) == Len(buf) > 0 /\ LE(RateOf(buf), t)

\* C1: check() returns no Spike while alert_active is true and no Recovery
\* while alert_active is false.
C1_NoSpikeWhileActive ==
    [][check =>
        /\ (alert_active => last'.ret.alert_type # SPIKE)
        /\ (~alert_active => last'.ret.alert_type # RECOVERY)]_vars

\* C2: the alerts a monitor emits alternate Spike, Recovery, Spike, ...,
\* starting with a Spike.
C2_KindsAlternate ==
    \A i \in DOMAIN emitted :
        emitted[i] = IF i % 2 = 1 THEN SPIKE ELSE RECOVERY

\* C3: a check() call returns an alert if and only if it changes
\* alert_active.
C3_EdgeTriggered ==
    [][check => ((last'.ret # NoAlert) <=> (alert_active' # alert_active))]_vars

C5_RecoveryOnClear ==
    [][check =>
        ((alert_active /\ RateAtMost(buffer', clear_threshold)) =>
            /\ last'.ret.alert_type = RECOVERY
            /\ EQ(last'.ret.metric_value, RateOf(buffer'))
            /\ ~alert_active')]_vars

\* C6: with alert_active true and the window empty or at a rate above
\* clear_threshold, check() returns no alert and alert_active stays true.
C6_QuietWhileActive ==
    [][check =>
        ((alert_active /\ ~RateAtMost(buffer', clear_threshold)) =>
            /\ last'.ret = NoAlert
            /\ alert_active')]_vars

\* C7: with alert_active false, check() returns no alert and leaves
\* alert_active false unless the window is non-empty at a rate >=
\* trigger_threshold.
C7_QuietWhileInactive ==
    [][check =>
        ((~alert_active /\ ~RateAtLeast(buffer', trigger_threshold)) =>
            /\ last'.ret = NoAlert
            /\ ~alert_active')]_vars

\* C7 happens: check() returned None on a window that holds a negative
\* entry, at a rate below the trigger threshold, with the alarm inactive.
C7_Witness ==
    /\ last.op = "check"
    /\ last.ret = NoAlert
    /\ emitted = <<>>
    /\ NegativeIn(buffer) > 0
    /\ ~RateAtLeast(buffer, trigger_threshold)

\* C8: the constructor raises ValueError exactly when trigger_threshold and
\* clear_threshold are both passed with clear_threshold >= trigger_threshold,
\* and any other call builds a monitor.
C8_ConfigErrorIff ==
    last.op = "__init__" =>
        LET bad == /\ {"trigger_threshold", "clear_threshold"} \subseteq DOMAIN last.args
                   /\ GE(last.args["clear_threshold"], last.args["trigger_threshold"])
        IN /\ bad => last.raised = "ValueError"
           /\ ~bad => (last.raised = None /\ mon.constructed)

\* C9: a constructor call that passes a threshold outside [0, 1] raises, and
\* no monitor has a threshold outside [0, 1].
InUnit(t) == GE(t, Zero) /\ LE(t, One)

C9_ThresholdInRange ==
    /\ mon.constructed => InUnit(mon.threshold)
    /\ last.op = "__init__" =>
        ((\E k \in DOMAIN last.args \cap {"threshold", "trigger_threshold", "clear_threshold"} :
                ~InUnit(last.args[k]))
            => last.raised = "ValueError")

\* C10: check() returns an Alert exactly when the evicted window is
\* non-empty at a rate >= threshold, and None otherwise.
C10_AlertIffAtThreshold ==
    [][check =>
        /\ (last'.ret # NoAlert) <=> RateAtLeast(buffer', mon.threshold)
        /\ last'.ret # NoAlert => last'.ret.alert_type = SPIKE]_vars

\* C10 happens: a second check() in a row returned an Alert, at a rate
\* strictly above the threshold.
C10_Witness ==
    /\ last.op = "check"
    /\ last.ret # NoAlert
    /\ emitted = <<SPIKE, SPIKE>>
    /\ ~RateAtMost(buffer, mon.threshold)

\* C11: ingest of an event without an outcome key, or with outcome None,
\* raises ValueError whatever its other fields are, and appends nothing.
C11_MissingOutcomeRaises ==
    [][\A e \in Events :
        (e.outcome \in {None, Absent} /\ ingest(e)) =>
            /\ last'.raised = "ValueError"
            /\ buffer' = buffer]_vars

\* C11 happens: ingest raised for the missing outcome on a window that holds
\* entries.
C11_Witness ==
    /\ last.op = "ingest"
    /\ last.raised = "ValueError"
    /\ last.raised_by = "ingest"
    /\ buffer # <<>>

\* C12: ingest of an event that has an outcome and whose timestamp is a
\* string that does not parse, or a value of an unsupported type, raises
\* TypeError.
C12_BadTimestampTypeError ==
    [][\A e \in Events :
        (/\ e.outcome \in Outcomes
         /\ e.timestamp.kind \in {"bad_string", "object"}
         /\ ingest(e))
            => last'.raised = "TypeError"]_vars

\* C13: an ingest or check call that raises leaves the window and the alarm
\* as they were; an ingest that returns has appended its entry at the tail
\* and evicted the stale head; a check that returns has evicted the stale
\* head and recorded the alert it returns.
C13_FailureAtomic ==
    [][/\ \A e \in Events :
            (last'.op = "ingest" /\ ingest(e)) =>
                IF last'.raised # None
                THEN buffer' = buffer /\ emitted' = emitted
                ELSE /\ buffer' # <<>>
                     /\ buffer'[Len(buffer')].outcome = e.outcome
                     /\ buffer'[1].ts >= buffer'[Len(buffer')].ts - mon.window_seconds
                     /\ emitted' = emitted
       /\ check =>
            IF last'.raised # None
            THEN buffer' = buffer /\ emitted' = emitted
            ELSE /\ (buffer' # <<>> => buffer'[1].ts >= now - mon.window_seconds)
                 /\ alert_active' = (IF last'.ret # NoAlert
                                     THEN last'.ret.alert_type = SPIKE
                                     ELSE alert_active)]_vars

\* C13 happens: ingest raised on a bad timestamp while the window held
\* entries and the alarm was active.
C13_Witness ==
    /\ last.op = "ingest"
    /\ last.raised = "TypeError"
    /\ buffer # <<>>
    /\ alert_active

\* C14: an ingest that returns has appended its entry at the tail, keeps
\* every entry whose timestamp is >= t - window_seconds, and leaves no entry
\* whose timestamp is < t - window_seconds, t being the entry's timestamp.
C14_NoStaleAfterIngest ==
    [][\A e \in Events :
        (ingest(e) /\ last'.raised = None) =>
            LET t == buffer'[Len(buffer')].ts
                cutoff == t - mon.window_seconds
            IN /\ buffer'[Len(buffer')].outcome = e.outcome
               /\ \A i \in DOMAIN buffer' : buffer'[i].ts >= cutoff
               /\ Len(buffer') - 1 =
                    Cardinality({i \in DOMAIN buffer : buffer[i].ts >= cutoff})]_vars

\* C15: summarize() leaves no entry older than now - window_seconds in the
\* window and returns as total the number of ingested entries whose
\* timestamp lies in [now - window_seconds, now].
C15_TotalCountsWindow ==
    [][summarize =>
        /\ \A i \in DOMAIN buffer' : buffer'[i].ts >= now - mon.window_seconds
        /\ last'.ret.total =
            Cardinality({i \in DOMAIN ingested :
                /\ ingested[i].ts >= now - mon.window_seconds
                /\ ingested[i].ts <= now})]_vars

\* C16: what summarize() returns has negative_rate in [0, 1]; on a non-empty
\* window it is negative_count / total with 0 <= negative_count <= total,
\* counted entry by entry; on an empty window it is 0.0.
C16_RateInUnit ==
    last.op = "summarize" =>
        LET s == last.ret
        IN /\ InUnit(s.negative_rate)
           /\ s.total = Len(buffer)
           /\ s.negative_count = NegativeIn(buffer)
           /\ 0 <= s.negative_count /\ s.negative_count <= s.total
           /\ s.total > 0 => EQ(s.negative_rate, <<s.negative_count, s.total>>)
           /\ s.total = 0 => s.negative_rate = Zero

\* C16 happens: summarize() on a window that mixes negative and other
\* entries.
C16_Witness ==
    /\ last.op = "summarize"
    /\ 0 < last.ret.negative_count
    /\ last.ret.negative_count < last.ret.total

\* C18: summarize() changes neither the alarm nor the emitted alerts nor the
\* callback's invocations, and a summarize() that follows a summarize() with
\* no call between them returns the same total, counts and negative_count.
C18_SummarizePure ==
    [][summarize =>
        /\ emitted' = emitted
        /\ called' = called
        /\ alert_active' = alert_active
        /\ last.op = "summarize" =>
            /\ last'.ret.total = last.ret.total
            /\ last'.ret.counts = last.ret.counts
            /\ last'.ret.negative_count = last.ret.negative_count]_vars

\* C18 happens: summarize() was called on a non-empty window with the alarm
\* active, on a monitor whose callback has been invoked.
C18_Witness ==
    /\ last.op = "summarize"
    /\ last.ret.total > 0
    /\ alert_active
    /\ called > 0

\* C19: on a monitor whose callback raises, check() raises nothing and
\* returns the alert, leaves the window, and records the alert and the
\* invocation, exactly as the same call does on the monitor whose callback
\* returns.
C19_CallbackFailureSwallowed ==
    [][(check /\ mon.alert_callback = "cb_raises") =>
        LET twin == check_of([mon EXCEPT !.alert_callback = "cb_returns"], buffer, now)
        IN /\ last'.raised = None
           /\ twin.raised = None
           /\ last'.ret = twin.ret
           /\ buffer' = twin.buffer
           /\ emitted' = IF twin.ret # NoAlert
                         THEN Append(emitted, twin.ret.alert_type)
                         ELSE emitted
           /\ called' = called + Len(twin.called_with)]_vars

\* C19 happens: check() returned an alert after invoking a callback that
\* raises.
C19_Witness ==
    /\ last.op = "check"
    /\ mon.alert_callback = "cb_raises"
    /\ last.called_with # <<>>
    /\ last.raised = None
    /\ last.ret.alert_type = SPIKE

\* C20: on a monitor with a callback, a check() that returns an alert
\* invokes the callback once, with that alert; a check() that returns None,
\* an ingest() and a summarize() do not invoke it.
C20_CallbackOncePerAlert ==
    [][/\ (check /\ mon.alert_callback # None) =>
            IF last'.ret # NoAlert
            THEN called' = called + 1 /\ last'.called_with = <<last'.ret>>
            ELSE called' = called /\ last'.called_with = <<>>
       /\ (\/ last'.op = "ingest" /\ \E e \in Events : ingest(e)
           \/ summarize) => called' = called]_vars

\* C20 happens: the second alert of a monitor with a callback, handed to the
\* callback's second invocation.
C20_Witness ==
    /\ last.op = "check"
    /\ mon.alert_callback # None
    /\ last.ret # NoAlert
    /\ last.called_with = <<last.ret>>
    /\ called = 2

\* C17: top_sources lists at most 5 (source, count) pairs; every listed
\* source is the non-null source of a window entry and is listed once, with
\* the number of window entries that carry it; the pairs are in descending
\* order of count, equal counts in the order the sources first appear in
\* the window; a source left out (other than the empty string, which the
\* code skips with None) is left out by the limit of 5 and ranks after every
\* listed one.
SourceCount(s) == Cardinality({i \in DOMAIN buffer : buffer[i].source = s})
FirstSeen(s) == CHOOSE i \in DOMAIN buffer :
                    buffer[i].source = s /\ \A j \in 1..(i - 1) : buffer[j].source # s
Before(s, r) ==
    \/ SourceCount(s) > SourceCount(r)
    \/ SourceCount(s) = SourceCount(r) /\ FirstSeen(s) < FirstSeen(r)

C17_TopSources ==
    last.op = "summarize" =>
        LET top == last.ret.top_sources
            listed == {top[k][1] : k \in DOMAIN top}
        IN /\ Len(top) <= 5
           /\ \A k \in DOMAIN top :
                /\ top[k][1] # None
                /\ \E i \in DOMAIN buffer : buffer[i].source = top[k][1]
                /\ top[k][2] = SourceCount(top[k][1])
           /\ \A k, l \in DOMAIN top : k < l => Before(top[k][1], top[l][1])
           /\ \A i \in DOMAIN buffer :
                (buffer[i].source \notin listed \cup {None, ""}) =>
                    /\ Len(top) = 5
                    /\ \A s \in listed : Before(s, buffer[i].source)

\* C17 happens: a window of more than five sources, two of them tied, so
\* that the limit of 5 cuts a source off.
C17_Witness ==
    /\ last.op = "summarize"
    /\ Len(last.ret.top_sources) = 5
    /\ \E i \in DOMAIN buffer :
        /\ Truthy(buffer[i].source)
        /\ \A k \in 1..5 : last.ret.top_sources[k][1] # buffer[i].source
    /\ last.ret.top_sources[4][2] = last.ret.top_sources[5][2]

KindsOf(alerts) == [k \in DOMAIN alerts |-> alerts[k].alert_type]

\* C22: run_once performs, for each event of the stream in order, ingest
\* immediately followed by check, and returns exactly the alerts those
\* checks returned, in order: at most one per event, none carried over from
\* an earlier call.
C22_RunOnceCollects ==
    LET at == run.at_call[1]
        done == IF run.pc = "done" THEN Len(run.stream) ELSE run.i - 1
    IN /\ run.pc = "check" => (last.op = "ingest" /\ last.raised = None)
       /\ (run.pc = "ingest" /\ run.i > 1) => last.op = "check"
       /\ run.pc \in {"ingest", "check", "done"} =>
            /\ KindsOf(run.alerts) = SubSeq(emitted, Len(at.emitted) + 1, Len(emitted))
            /\ Len(run.alerts) <= done
            /\ \A k \in 1..done :
                    ingested[Len(at.ingested) + k].outcome = run.stream[k].outcome
            /\ Len(ingested) =
                    Len(at.ingested) + done + (IF run.pc = "check" THEN 1 ELSE 0)
            /\ (last.op = "check" /\ last.ret # NoAlert /\ run.alerts # <<>>) =>
                    run.alerts[Len(run.alerts)] = last.ret
       /\ run.pc = "done" =>
            /\ run.ret = run.alerts
            /\ Len(run.ret) <= Len(run.stream)
            /\ run.stream # <<>> => last.op = "check"

\* C22 happens: run_once returned one alert for a stream of two events, the
\* first of which raised none, on a monitor an earlier call had fed.
C22_Witness ==
    /\ run.pc = "done"
    /\ Len(run.stream) = 2
    /\ Len(run.ret) = 1
    /\ run.stream[1].outcome = "ok"
    /\ run.at_call[1].ingested # <<>>

\* the metric_value of each alert of a list
MetricsOf(alerts) == [k \in DOMAIN alerts |-> alerts[k].metric_value]

\* every event of the stream carries a numeric timestamp and an outcome
Historical(stream) ==
    \A k \in DOMAIN stream :
        stream[k].timestamp.kind = "number" /\ stream[k].outcome \in Outcomes

\* C23: a run_once over a stream of explicitly timestamped events on a fresh
\* monitor yields the alert kinds, the metric values and the window after
\* each ingest that the same replay yields at any other wall-clock time.
C23_ReplayDeterministic ==
    (/\ run.pc = "done"
     /\ run.stream # <<>>
     /\ Historical(run.stream)
     /\ run.at_call[1].buffer = <<>>
     /\ run.at_call[1].ingested = <<>>) =>
        \A t \in Times :
            LET other == replay(mon, <<>>, run.stream, t)
            IN /\ KindsOf(run.ret) = KindsOf(other.alerts)
               /\ MetricsOf(run.ret) = MetricsOf(other.alerts)
               /\ run.windows = other.windows

\* C24: the alarm changes only inside check(): a step that changes
\* alert_active, emits an alert or invokes the callback is a check(), and an
\* ingest() changes none of them, whatever rate the window it leaves has.
C24_AlarmOnlyInCheck ==
    [][/\ (\/ alert_active' # alert_active
           \/ emitted' # emitted
           \/ called' # called) => check
       /\ (last'.op = "ingest" /\ \E e \in Events : ingest(e)) =>
            /\ alert_active' = alert_active
            /\ emitted' = emitted
            /\ called' = called]_vars

\* C24 happens: ingest() left a window at a rate at or above the threshold
\* on a monitor with a callback, and the alarm is still inactive.
C24_Witness ==
    /\ last.op = "ingest"
    /\ last.raised = None
    /\ RateAtLeast(buffer, mon.threshold)
    /\ mon.alert_callback # None
    /\ ~alert_active
    /\ called = 0

\* C28: run_once ends at the first event whose ingest raises: the exception
\* leaves run_once, which returns nothing, the alerts collected so far
\* included; no later event is ingested or checked; the monitor keeps the
\* window entries and the alerts of the events before the failing one.
C28_RunOnceStopsAtFailure ==
    /\ (last.op = "ingest" /\ last.raised # None /\ run.pc # "idle") =>
            \/ run.pc = "raised"
            \/ run.pc = "ingest" /\ run.i = 1
            \/ run.pc = "done" /\ run.stream = <<>>
    /\ run.pc = "raised" =>
        LET at == run.at_call[1]
        IN /\ last.op = "ingest"
           /\ run.raised = last.raised
           /\ run.raised \in {"ValueError", "TypeError"}
           /\ run.ret = <<>>
           /\ \/ MissingOutcome(run.stream[run.i])
              \/ to_ts(run.stream[run.i].timestamp, now).raised # None
           /\ \A k \in 1..(run.i - 1) : ~MissingOutcome(run.stream[k])
           /\ Len(ingested) = Len(at.ingested) + run.i - 1
           /\ \A k \in 1..(run.i - 1) :
                ingested[Len(at.ingested) + k].outcome = run.stream[k].outcome
           /\ Len(run.windows) = run.i - 1
           /\ KindsOf(run.alerts) = SubSeq(emitted, Len(at.emitted) + 1, Len(emitted))
           /\ run.i > 1 =>
                \E n \in 0..Len(run.windows[run.i - 1]) :
                    buffer = SubSeq(run.windows[run.i - 1], n + 1,
                                    Len(run.windows[run.i - 1]))

\* C28 happens: the second event of a stream raised after the first had
\* produced an alert, which the caller never receives and the monitor keeps.
C28_Witness ==
    /\ run.pc = "raised"
    /\ run.i = 2
    /\ Len(run.stream) = 2
    /\ run.alerts # <<>>
    /\ emitted # <<>>
    /\ buffer # <<>>

\* seq is the last Len(seq) elements of whole
IsSuffix(seq, whole) ==
    /\ Len(seq) <= Len(whole)
    /\ seq = SubSeq(whole, Len(whole) - Len(seq) + 1, Len(whole))

\* C27: in every reachable state the window is a contiguous suffix of the
\* sequence of successfully appended events, in arrival order: entries enter
\* at the tail and leave from the head only, whatever their timestamps.
C27_WindowIsSuffix == IsSuffix(buffer, ingested)

\* C27 happens: the head was evicted while the window holds two entries out
\* of timestamp order, the later one stale with respect to the earlier.
C27_Witness ==
    /\ Len(buffer) = 2
    /\ Len(ingested) = 3
    /\ buffer[1].ts - buffer[2].ts > mon.window_seconds

NonDecreasing(seq) == \A i \in 1..(Len(seq) - 1) : seq[i].ts <= seq[i + 1].ts

\* C26: when only ingest() has been called and the appended timestamps are
\* non-decreasing, the window holds exactly the appended entries whose
\* timestamp is at least the last one's minus window_seconds, in arrival
\* (hence non-decreasing timestamp) order.
C26_ChronologicalWindow ==
    (ingested # <<>> /\ NonDecreasing(ingested)) =>
        LET t == ingested[Len(ingested)].ts
        IN /\ buffer = SelectSeq(ingested,
                                 LAMBDA entry : entry.ts >= t - mon.window_seconds)
           /\ NonDecreasing(buffer)

\* C26 happens: three chronological ingests, the first evicted by the
\* third, the second retained at exactly window_seconds before it.
C26_Witness ==
    /\ Len(ingested) = 3
    /\ NonDecreasing(ingested)
    /\ Len(buffer) = 2
    /\ buffer[2].ts - buffer[1].ts = mon.window_seconds
    /\ ingested[1].ts < buffer[1].ts

\* the set a monitor built with kwargs is to count as negative
NegativeSetOf(kwargs) ==
    IF "negative_key" \in DOMAIN kwargs /\ kwargs["negative_key"] # {}
    THEN kwargs["negative_key"]
    ELSE {"negative", "error"}

CountIn(buf, outcomes) == Cardinality({i \in DOMAIN buf : buf[i].outcome \in outcomes})

\* C29: the constructor leaves as negative set the set it was given, or
\* {negative, error} when it was given none or an empty one; no call
\* changes it afterwards; negative_count is the number of window entries
\* whose outcome is in it, and check() alerts exactly when that number over
\* the window size reaches the threshold.
C29_NegativeSet ==
    [][/\ (last'.op = "__init__" /\ last'.raised = None) =>
            mon'.negative_key = NegativeSetOf(last'.args)
       /\ mon.constructed => mon'.negative_key = mon.negative_key
       /\ (last'.op = "summarize" /\ summarize) =>
            last'.ret.negative_count = CountIn(buffer', mon'.negative_key)
       /\ (last'.op = "check" /\ check) =>
            (last'.ret # NoAlert <=>
                /\ buffer' # <<>>
                /\ GE(<<CountIn(buffer', mon'.negative_key), Len(buffer')>>,
                      mon'.threshold))]_vars

\* C29 happens: the monitor built with an empty negative set (threshold
\* 1/2) has alerted on a window of one `negative`, one `error` and one `ok`
\* outcome.
C29_Witness ==
    /\ mon.constructed
    /\ mon.threshold = <<1, 2>>
    /\ mon.negative_key = {"negative", "error"}
    /\ last.op = "check"
    /\ last.ret # NoAlert
    /\ Len(buffer) = 3
    /\ \E i, j \in DOMAIN buffer : buffer[i].outcome = "negative" /\ buffer[j].outcome = "error"
    /\ last.ret.details.negative_count = 2

\* C25: a process() call that returns has an artifact and a registry entry
\* in its result exactly when `aligned` is true (in a batch as well), and
\* every artifact and every registry entry of the gateway carries an
\* alignment score of at least the gateway's alignment_threshold.
Materialized(result) ==
    /\ result.artifact # NoArtifact <=> result.aligned
    /\ result.registry_entry # NoEntry <=> result.aligned

C25_OnlyAlignedMaterialized ==
    /\ (last.op = "process" /\ last.raised = None) => Materialized(last.ret)
    /\ last.op = "batch_process" =>
        \A i \in DOMAIN last.ret :
            last.ret[i].error = None => Materialized(last.ret[i].result)
    /\ \A i \in DOMAIN gw.artifacts :
        GE(gw.artifacts[i].alignment_score, gw.alignment_threshold)
    /\ \A i \in DOMAIN gw.entries :
        GE(gw.entries[i].alignment_score, gw.alignment_threshold)

\* C25 happens: the default gateway (threshold 0.8) was handed a batch of
\* the plain text and the rich one: the first result is not aligned and
\* holds nothing, the second is aligned and holds the artifact and the
\* entry of score 1, the only ones the stores hold.
C25_Witness ==
    /\ last.op = "batch_process"
    /\ Len(last.ret) = 2
    /\ last.ret[1].error = None
    /\ ~last.ret[1].result.aligned
    /\ last.ret[1].result.artifact = NoArtifact
    /\ last.ret[2].error = None
    /\ last.ret[2].result.aligned
    /\ last.ret[2].result.artifact.alignment_score = <<1000000, 1000000>>
    /\ gw.alignment_threshold = <<8, 10>>
    /\ Len(gw.parsed_constructs) = 2
    /\ gw.artifacts = <<last.ret[2].result.artifact>>
    /\ gw.entries = <<last.ret[2].result.registry_entry>>

\* C30: after any sequence of process, batch_process and clear_all calls
\* the stores are consistent: as many registry entries as artifacts, no
\* more artifacts than parsed constructs, as many parsed constructs as
\* recorded inspirations; reflect() reports an alignment_pass_rate in
\* [0, 1]; clear_all leaves the four stores empty.
C30_StoresConsistent ==
    /\ Len(gw.entries) = Len(gw.artifacts)
    /\ Len(gw.artifacts) <= Len(gw.parsed_constructs)
    /\ Len(gw.parsed_constructs) = Len(gw.inspirations)
    /\ last.op = "reflect" =>
        /\ GE(last.ret.alignment_pass_rate, <<0, 1>>)
        /\ GE(<<1, 1>>, last.ret.alignment_pass_rate)
    /\ last.op = "clear_all" =>
        /\ gw.inspirations = <<>>
        /\ gw.parsed_constructs = <<>>
        /\ gw.artifacts = <<>>
        /\ gw.entries = <<>>

====
